---------------------------- MODULE Spec2Model ----------------------------
(***************************************************************************)
(* BambooAPIClient (src/bamboo_api/api.py): the paginated generator        *)
(* methods, the three request primitives, _build_expand, _get_url, the     *)
(* label search get_builds_by_label, queue_build and continue_build.       *)
(*                                                                         *)
(* A paginated method is a Python generator function.  Calling it creates  *)
(* a suspended frame; the body runs only while the consumer is inside      *)
(* next(), from the point where it was suspended up to the next yield, the *)
(* return or an exception.  Each frame is modelled by its position pc and  *)
(* its locals (qs, size, the decoded envelope, the rest of the page).      *)
(***************************************************************************)
EXTENDS Integers, Sequences, FiniteSets, TLC

\* ------------------------------------------------------------------ bounds
MaxS      == 5   \* items held by the paging server
MaxM      == 3   \* largest max-result the paging server reports
TwoMaxS   == 3   \* items held by the paging server, two iterations
TwoMaxM   == 2   \* its largest max-result
MaxSize   == 2   \* largest size an arbitrary server reports
MaxMaxRes == 1   \* largest max-result an arbitrary server reports
MaxPage   == 1   \* most items in one page of an arbitrary server
MaxReq    == 2   \* requests of one iteration against an arbitrary server
MaxExpand == 2   \* length of the expand argument of _build_expand
MaxLabels == 2   \* length of the labels argument of get_builds_by_label
MaxLabelPages == 2   \* result pages the server holds for a label
MaxSpans  == 2   \* status-icon elements of one result page
MaxItems  == 2   \* most items in one page of the long-page server
BuildsMaxReq == 4 \* requests of get_builds against the constant-size server
MaxB      == 3   \* largest bound on the sizes the bounded server reports
MaxStall  == 1   \* requests allowed beyond max(1, B) against that server
MaxCalls  == 2   \* calls of queue_build and continue_build on one client

\* ------------------------------------------------------- program constants
DefaultMaxResult == 25

None == "None"

Iters == {1, 2}

IndexBounded == {"get_plans", "get_branches", "get_results",
                 "get_branch_results", "get_environment_results"}
Methods == IndexBounded \cup {"get_builds"}

\* caller-supplied max_result values
MaxResults == {1, DefaultMaxResult}

\* build_state arguments of get_branch_results: absent, empty, the three valid
\* values and two invalid ones
BuildStates == {None, "", "Successful", "Failed", "Unknown", "Bogus"}

valid_build_states == {"Successful", "Failed", "Unknown"}

\* HTTP status codes a server answers with, and their reason phrases
Statuses == {200, 201, 204, 301, 404, 500}
Reasons  == {"OK", "Created", "No Content", "Moved Permanently", "Not Found",
             "Internal Server Error"}

ReasonOf(status) ==
    CASE status = 200 -> "OK"
      [] status = 201 -> "Created"
      [] status = 204 -> "No Content"
      [] status = 301 -> "Moved Permanently"
      [] status = 404 -> "Not Found"
      [] OTHER        -> "Internal Server Error"

VARIABLES
    srv,       \* the paging server: [S, M]
    pc,        \* pc[i]: position of generator frame i
    meth,      \* meth[i]: the paginated method frame i runs
    args,      \* args[i]: [max_result, build_state] given to the call
    qs,        \* qs[c]: the query-string dict (cursor) stored in cell c
    size,      \* size[i]: the local `size`
    results,   \* results[i]: the envelope decoded last
    page,      \* page[i]: items of the current page not yet yielded
    yielded,   \* yielded[i]: items the consumer has received
    recv,      \* recv[i]: items of the pages received and accepted
    reqlog,    \* reqlog[i]: the requests issued: the url and the query dict
    nexts,     \* nexts[i]: next() calls the consumer has made
    err,       \* err[i]: what the exception that ended the frame carries
    url,       \* url[i]: the local `url`
    prim,      \* the last call of a request primitive and its outcome
    expand,    \* argument of the last _build_expand call
    expand_str,\* its result
    site,      \* the label-search pages the server holds
    bfl,       \* the frame of get_builds_by_label: position and locals
    client,    \* the connection config: _host, _port, _prefix (and, for the
               \* properties, the arguments the constructor was given)
    out,       \* the last _get_url call and what it returned
    queue      \* queue_build / continue_build: the calls made, the request
               \* of the last one, the default build_vars objects

\* the connection, _get_url and the queue actions
cvars == <<client, out, queue>>

\* what the paginated methods, the primitives and _build_expand leave alone
xvars == <<site, bfl, cvars>>

pvars == <<srv, pc, meth, args, qs, size, results, page, yielded, recv,
           reqlog, nexts, err, url>>
vars  == <<srv, pc, meth, args, qs, size, results, page, yielded, recv,
           reqlog, nexts, err, prim, expand, expand_str, xvars, url>>

\* -------------------------------------------------------- request primitives
Returned(res)  == [raised |-> FALSE, value |-> res, reason |-> None]
Raised(reason) == [raised |-> TRUE, value |-> None, reason |-> reason]

\* `if res.status_code != 200: raise Exception(res.reason)`, `return res`
_get_response(res) ==
    IF res.status_code # 200 THEN Raised(res.reason) ELSE Returned(res)

_post_response(res) ==
    IF res.status_code # 200 THEN Raised(res.reason) ELSE Returned(res)

\* faulty variant of _put_response: every 2xx status accepted
PutResponseAny2xx(res) ==
    IF res.status_code \notin 200..299 THEN Raised(res.reason) ELSE Returned(res)

_put_response(res) ==
    IF res.status_code # 200 THEN Raised(res.reason) ELSE Returned(res)

\* ------------------------------------------------------------ _build_expand
\* A string is the sequence of its pieces: words, and the separators "." and
\* "," as pieces of their own, so that joining and splitting are computed.
Range(f) == {f[x] : x \in DOMAIN f}

valid_expands ==
    { <<"artifacts">>, <<"comments">>, <<"labels">>, <<"jiraIssues">>,
      <<"stages">>,
      <<"stages", ".", "stage">>,
      <<"stages", ".", "stage", ".", "results">>,
      <<"stages", ".", "stage", ".", "results", ".", "result">> }

\* keys a caller may pass: the valid ones, an unknown one, a wrongly cased
\* one and one that holds a comma ("labels,comments")
ExpandKeys ==
    valid_expands \cup { <<"bogus">>, <<"Labels">>, <<"labels", ",", "comments">> }

\* sep.join(list)
RECURSIVE Join(_, _)
Join(sep, list) ==
    IF list = <<>> THEN <<>>
    ELSE IF Len(list) = 1 THEN list[1]
    ELSE list[1] \o <<sep>> \o Join(sep, Tail(list))

\* the orders in which a set may be iterated
Orderings(S) == {f \in [1..Cardinality(S) -> S] : Range(f) = S}

\* faulty variant of KeptExpands: the allow-list not applied
KeptExpandsAll(exp) == Range(exp)

\* the keys kept: `set(expand) & valid_expands`
KeptExpands(exp) == Range(exp) \cap valid_expands

\* one result for each order in which the set is iterated
_build_expand(exp) ==
    { Join(",", [k \in 1..Len(ord) |->
                    Join(".", << <<"results", ".", "result">>, ord[k] >>)]) :
        ord \in Orderings(KeptExpands(exp)) }

\* ------------------------------------------------------------- the servers
NoJson == [size |-> 0, max_result |-> 0, start_index |-> 0, result |-> <<>>]

\* items are numbered by their offset on the server: offset k is item k + 1
Items(from, n) == [k \in 1..n |-> from + k]

Min(a, b) == IF a < b THEN a ELSE b

Max(a, b) == IF a > b THEN a ELSE b

Failure(status) ==
    [status_code |-> status, reason |-> ReasonOf(status), json |-> NoJson]

Ok(json) == [status_code |-> 200, reason |-> "OK", json |-> json]

\* The paging server: holds S items, reports max-result M and echoes the
\* requested start-index.  The deployment-result style endpoints report
\* size = S; the result endpoint read by get_builds reports the number of
\* items of the page.
PagedJson(m, S, M, start) ==
    LET n == IF start < S THEN Min(M, S - start) ELSE 0
    IN  [size        |-> IF m = "get_builds" THEN n ELSE S,
         max_result  |-> M,
         start_index |-> start,
         result      |-> Items(start, n)]

\* the statuses of the requests that fail during an iteration
PageFailures == {204, 500}

PagedResponses(m, S, M, start) ==
    {Ok(PagedJson(m, S, M, start))} \cup {Failure(s) : s \in PageFailures}

\* An arbitrary server: any size and max-result, the start-index echoed or
\* reset to 0, any number of items from the echoed offset on.
AnyResponses(start) ==
    {Ok([size |-> sz, max_result |-> mr, start_index |-> si,
         result |-> Items(si, n)]) :
        sz \in 0..MaxSize, mr \in 0..MaxMaxRes, si \in {0, start}, n \in 0..MaxPage}
    \cup {Failure(s) : s \in PageFailures}

\* A server that sends pages of any length up to MaxItems, whatever the
\* envelope says: size and max-result zero or not, the start-index echoed or
\* reset to 0.
ItemResponses(start) ==
    {Ok([size |-> sz, max_result |-> mr, start_index |-> si,
         result |-> Items(si, n)]) :
        sz \in {0, MaxSize}, mr \in {0, MaxMaxRes}, si \in {0, start},
        n \in 0..MaxItems}
    \cup {Failure(500)}

\* The servers get_builds is run against, by srv.kind: the paging server;
\* a server that holds S items and pages them by M as the paging server does
\* but reports the constant size M in every envelope; an arbitrary server.
ServerKinds == {"paged", "constant", "any"}

BuildsResponses(start) ==
    CASE srv.kind = "paged" ->
             PagedResponses("get_builds", srv.S, srv.M, start)
      [] srv.kind = "constant" ->
             {Ok([PagedJson("get_builds", srv.S, srv.M, start)
                     EXCEPT !.size = srv.M])}
      [] OTHER -> AnyResponses(start)

\* A server whose envelopes report a size of at most srv.B and a max-result
\* of at least srv.least, echo the start-index and hold one item while the
\* start-index is below the size reported.
BoundedResponses(start) ==
    {Ok([size |-> sz, max_result |-> mr, start_index |-> start,
         result |-> Items(start, IF start < sz THEN 1 ELSE 0)]) :
        sz \in 0..srv.B, mr \in srv.least..MaxMaxRes}
    \cup {Failure(500)}

\* --------------------------------------------------- connection and _get_url
\* Python values: None, an int, a str (the sequence of its pieces; a piece
\* is a run of characters the model never looks into)
PyNone == [t |-> "none"]
PyInt(n) == [t |-> "int", v |-> n]
PyStr(s) == [t |-> "str", v |-> s]

\* truth value of x, as `or` and `if` take it
Truthy(x) ==
    CASE x.t = "none" -> FALSE
      [] x.t = "int"  -> x.v # 0
      [] OTHER        -> x.v # <<>>

\* x or d
Or(x, d) == IF Truthy(x) THEN x ELSE d

DigitChars == <<"0", "1", "2", "3", "4", "5", "6", "7", "8", "9">>

\* decimal digits of a natural number
RECURSIVE Digits(_)
Digits(n) ==
    IF n < 10 THEN <<DigitChars[n + 1]>>
    ELSE Digits(n \div 10) \o <<DigitChars[(n % 10) + 1]>>

\* str(x), as str.format renders a '{}' field
Str(x) ==
    CASE x.t = "none" -> <<"None">>
      [] x.t = "int"  -> Digits(x.v)
      [] OTHER        -> x.v

\* template.format(*fargs): the template is a sequence of pieces and '{}'
\* fields, each field replaced by the next argument
RECURSIVE Format(_, _)
Format(template, fargs) ==
    IF template = <<>> THEN <<>>
    ELSE IF Head(template) = "{}"
         THEN Str(Head(fargs)) \o Format(Tail(template), Tail(fargs))
         ELSE <<Head(template)>> \o Format(Tail(template), fargs)

DEFAULT_HOST == PyStr(<<"http://localhost">>)
DEFAULT_PORT == PyInt(8085)
QUEUE_SERVICE   == PyStr(<<"/", "rest/api/latest/queue">>)
PROJECT_SERVICE == PyStr(<<"rest/api/latest/project">>)

\* BambooAPIClient(host, port, prefix)
__init__(host, port, prefix) ==
    [given   |-> [host |-> host, port |-> port, prefix |-> prefix],
     _host   |-> Or(host, DEFAULT_HOST),
     _port   |-> Or(port, DEFAULT_PORT),
     _prefix |-> Or(prefix, PyStr(<<>>))]

\* BambooAPIClient()
DefaultClient == __init__(PyNone, PyNone, PyNone)

\* faulty variant of _get_url: a '/' between prefix and endpoint
GetUrlSlash(endpoint) ==
    PyStr(Format(<<"{}", ":", "{}", "{}", "/", "{}">>,
                 <<client._host, client._port, client._prefix, endpoint>>))

_get_url(endpoint) ==
    PyStr(Format(<<"{}", ":", "{}", "{}", "{}">>,
                 <<client._host, client._port, client._prefix, endpoint>>))

NoOut == [op |-> None, endpoint |-> PyNone, url |-> PyNone]

GetUrl(endpoint) ==
    /\ out' = [op |-> "_get_url", endpoint |-> endpoint,
               url |-> _get_url(endpoint)]
    /\ UNCHANGED <<pvars, prim, expand, expand_str, site, bfl, client, queue>>

\* constructor arguments and endpoints
Hosts     == {PyNone, PyStr(<<>>), PyStr(<<"http://x">>)}
Ports     == {PyNone, PyInt(0), PyInt(7), PyInt(443)}
Prefixes  == {PyNone, PyStr(<<>>), PyStr(<<"/", "p">>)}
Endpoints == {PyStr(<<"/", "e">>), QUEUE_SERVICE, PROJECT_SERVICE}

\* ------------------------------------------- queue_build and continue_build
EmptyDict == <<>>

NoRequest == [verb |-> None, url |-> PyNone, qs |-> EmptyDict]

NoCall == [op |-> None, dflt |-> FALSE, stage |-> PyNone,
           executeAllStages |-> FALSE]

\* calls: the calls made; sent: the requests issued; call, before, last,
\* outcome: the arguments of the last call, the build_vars mapping as it was
\* when the call began, the request the call issued and what the primitive
\* made of the response; passed: that mapping after the call; defaults: the
\* two `build_vars={}` objects, created once at definition time
NoQueue ==
    [calls    |-> 0,
     sent     |-> 0,
     call     |-> NoCall,
     before   |-> EmptyDict,
     last     |-> NoRequest,
     outcome  |-> Raised(None),
     passed   |-> EmptyDict,
     defaults |-> [queue_build |-> EmptyDict, continue_build |-> EmptyDict]]

\* 'bamboo.variable.{}'.format(k)
BambooVariable(k) == Format(<<"bamboo.variable.", "{}">>, <<PyStr(<<k>>)>>)

\* for k, v in build_vars.items(): qs['bamboo.variable.{}'.format(k)] = v
RECURSIVE SetVars(_, _, _)
SetVars(q, build_vars, names) ==
    IF names = {} THEN q
    ELSE LET k == CHOOSE n \in names : TRUE
         IN  SetVars((BambooVariable(k) :> build_vars[k]) @@ q,
                     build_vars, names \ {k})

\* faulty variant of QueueBuild: the mapping of a call is kept as the default
QueueBuildRemember(plan_key, dflt, bv, res) ==
    /\ queue.calls < MaxCalls
    /\ LET build_vars == IF dflt THEN queue.defaults.queue_build ELSE bv
           u   == Format(<<"{}", "/", "{}">>,
                         <<_get_url(QUEUE_SERVICE), PyStr(<<plan_key>>)>>)
           q   == SetVars(EmptyDict, build_vars, DOMAIN build_vars)
       IN  queue' = [calls    |-> queue.calls + 1,
                     sent     |-> queue.sent + 1,
                     call     |-> [NoCall EXCEPT !.op = "queue_build",
                                                 !.dflt = dflt],
                     before   |-> build_vars,
                     last     |-> [verb |-> "POST", url |-> PyStr(u),
                                   qs |-> q],
                     outcome  |-> _post_response(res),
                     passed   |-> build_vars,
                     defaults |-> [queue.defaults EXCEPT
                                       !.queue_build = build_vars]]
    /\ UNCHANGED <<pvars, prim, expand, expand_str, site, bfl, client, out>>

\* queue_build(plan_key) when dflt, queue_build(plan_key, bv) otherwise
QueueBuild(plan_key, dflt, bv, res) ==
    /\ queue.calls < MaxCalls
    /\ LET build_vars == IF dflt THEN queue.defaults.queue_build ELSE bv
           u   == Format(<<"{}", "/", "{}">>,
                         <<_get_url(QUEUE_SERVICE), PyStr(<<plan_key>>)>>)
           q   == SetVars(EmptyDict, build_vars, DOMAIN build_vars)
       IN  queue' = [calls    |-> queue.calls + 1,
                     sent     |-> queue.sent + 1,
                     call     |-> [NoCall EXCEPT !.op = "queue_build",
                                                 !.dflt = dflt],
                     before   |-> build_vars,
                     last     |-> [verb |-> "POST", url |-> PyStr(u),
                                   qs |-> q],
                     outcome  |-> _post_response(res),
                     passed   |-> build_vars,
                     defaults |-> queue.defaults]
    /\ UNCHANGED <<pvars, prim, expand, expand_str, site, bfl, client, out>>

\* continue_build(plan_key, build_number, stage, executeAllStages[, bv])
ContinueBuild(plan_key, build_number, stage, executeAllStages, dflt, bv, res) ==
    /\ queue.calls < MaxCalls
    /\ LET build_vars == IF dflt THEN queue.defaults.continue_build ELSE bv
           u   == Format(<<"{}", "/", "{}", "-", "{}">>,
                         <<_get_url(QUEUE_SERVICE), PyStr(<<plan_key>>),
                           PyInt(build_number)>>)
           q0  == EmptyDict
           q1  == IF executeAllStages
                  THEN (<<"executeAllStages">> :> PyStr(<<"true">>)) @@ q0
                  ELSE q0
           q2  == IF Truthy(stage) THEN (<<"stage">> :> stage) @@ q1 ELSE q1
           q   == SetVars(q2, build_vars, DOMAIN build_vars)
       IN  queue' = [calls    |-> queue.calls + 1,
                     sent     |-> queue.sent + 1,
                     call     |-> [op |-> "continue_build", dflt |-> dflt,
                                   stage |-> stage,
                                   executeAllStages |-> executeAllStages],
                     before   |-> build_vars,
                     last     |-> [verb |-> "PUT", url |-> PyStr(u),
                                   qs |-> q],
                     outcome  |-> _put_response(res),
                     passed   |-> build_vars,
                     defaults |-> queue.defaults]
    /\ UNCHANGED <<pvars, prim, expand, expand_str, site, bfl, client, out>>

\* arguments of the queue actions
VarNames  == {"x", "stage"}
VarValues == {PyStr(<<"1">>), PyStr(<<"2">>)}
Dicts     == UNION {[D -> VarValues] : D \in SUBSET VarNames}
Stages    == {PyNone, PyStr(<<>>), PyStr(<<"Deploy">>)}
PlanKeys  == {"PRJ-PLAN"}
BuildNumbers == {12}
QueueResponses == {Ok(NoJson), Failure(500)}

\* -------------------------------------- urls and filters of the paginated methods
PyTrue == [t |-> "bool", v |-> TRUE]

BUILD_SERVICE  == PyStr(<<"/", "rest/api/latest/result">>)
PLAN_SERVICE   == PyStr(<<"/", "rest/api/latest/plan">>)
RESULT_SERVICE == PyStr(<<"/", "rest/api/latest/result">>)
\* templates: '{env_id}', '{key}', '{branch_name}' are the fields, in order
ENVIRONMENT_SERVICE ==
    <<"/", "rest/api/latest/deploy/environment", "/", "{}", "/", "results">>
BRANCH_SERVICE == PLAN_SERVICE.v \o <<"/", "{}", "/", "branch">>
BRANCH_RESULT_SERVICE == RESULT_SERVICE.v \o <<"/", "{}", "/", "branch", "/", "{}">>

\* the arguments of a paginated method besides max_result and build_state;
\* a method takes those of its signature
NoOpts ==
    [plan_key |-> PyNone, branch_name |-> PyNone, build_number |-> PyNone,
     environment_id |-> PyNone, expand |-> <<>>, labels |-> <<>>,
     issue_keys |-> <<>>, favorite |-> FALSE, include_all_states |-> FALSE,
     continuable |-> FALSE, enabled_only |-> FALSE]

AllOpts ==
    [plan_key |-> PyStr(<<"PRJ-PLAN">>), branch_name |-> PyStr(<<"develop">>),
     build_number |-> PyStr(<<"7">>), environment_id |-> PyInt(5),
     expand |-> << <<"labels">>, <<"bogus">>, <<"comments">> >>,
     labels |-> << <<"nightly">>, <<"smoke">> >>,
     issue_keys |-> << <<"J-1">> >>, favorite |-> TRUE,
     include_all_states |-> TRUE, continuable |-> TRUE, enabled_only |-> TRUE]

OptsSet == {NoOpts, AllOpts,
            [NoOpts EXCEPT !.plan_key = PyStr(<<"PRJ-PLAN">>),
                           !.expand = << <<"stages">> >>]}

\* the local `url` of method m called with the arguments o
UrlOf(m, o) ==
    CASE m = "get_builds" ->
             IF Truthy(o.plan_key)
             THEN PyStr(Format(<<"{}", "/", "{}">>,
                               <<_get_url(BUILD_SERVICE), o.plan_key>>))
             ELSE _get_url(BUILD_SERVICE)
      [] m = "get_plans" -> _get_url(PLAN_SERVICE)
      [] m = "get_branches" ->
             _get_url(PyStr(Format(BRANCH_SERVICE, <<o.plan_key>>)))
      [] m = "get_results" ->
             LET plan_key ==
                     IF o.build_number # PyNone /\ o.plan_key # PyNone
                     THEN PyStr(o.plan_key.v \o <<"-">> \o o.build_number.v)
                     ELSE o.plan_key
             IN  PyStr(Format(<<"{}", "/", "{}">>,
                              <<_get_url(RESULT_SERVICE),
                                Or(plan_key, PyStr(<<"all">>))>>))
      [] m = "get_branch_results" ->
             _get_url(PyStr(Format(BRANCH_RESULT_SERVICE,
                                   <<o.plan_key, o.branch_name>>)))
      [] OTHER ->
             _get_url(PyStr(Format(ENVIRONMENT_SERVICE, <<o.environment_id>>)))

\* the filter keys method m puts into qs, besides max-result and
\* start-index: one dict for each string _build_expand may return
FiltersOf(m, a) ==
    LET o == a.opts
        hasExpand == /\ m \in {"get_builds", "get_plans", "get_results",
                               "get_branch_results"}
                     /\ o.expand # <<>>
        branch == m = "get_branch_results"
        Put(cond, key, val, d) == IF cond THEN (key :> val) @@ d ELSE d
        Build(e) ==
            LET d1 == Put(hasExpand, "expand", PyStr(e), EmptyDict)
                d2 == Put(branch /\ o.favorite, "favorite", PyTrue, d1)
                d3 == Put(m \in {"get_builds", "get_branch_results"}
                          /\ o.labels # <<>>,
                          "label", PyStr(Join(",", o.labels)), d2)
                d4 == Put(branch /\ o.issue_keys # <<>>,
                          "issueKey", PyStr(Join(",", o.issue_keys)), d3)
                d5 == Put(branch /\ o.include_all_states,
                          "includeAllStates", PyTrue, d4)
                d6 == Put(branch /\ o.continuable, "continuable", PyTrue, d5)
                d7 == Put(branch /\ a.build_state \notin {None, ""},
                          "build_state", PyStr(<<a.build_state>>), d6)
                d8 == Put(m = "get_branches" /\ o.enabled_only,
                          "enabledOnly", PyStr(<<"true">>), d7)
            IN  d8
    IN  {Build(e) : e \in IF hasExpand THEN _build_expand(o.expand)
                          ELSE {<<>>}}

\* ------------------------------------------------------ pagination helpers
\* faulty variant of Cell: one qs dict kept on the client and shared by its frames
CellShared(i) == 1

\* every generator frame owns the qs dict it builds
Cell(i) == i

NoQs == [max_result |-> 0, start_index |-> 0, filters |-> EmptyDict]

\* faulty variant of ValidBuildState: no value refused
ValidBuildStateAny(bs) == TRUE

\* `build_state not in valid_build_states` negated
ValidBuildState(bs) == bs \in valid_build_states

\* `if build_state:` ... `if build_state not in valid_build_states: raise`
BuildStateRejected(m, bs) ==
    m = "get_branch_results" /\ bs # None /\ bs # "" /\ ~ValidBuildState(bs)

\* faulty variant of LoopCond: get_builds bounded by the index as well
LoopCondIndex(m, q, sz) == q.start_index < sz

\* `while size:` in get_builds, `while qs['start-index'] < size:` elsewhere
LoopCond(m, q, sz) ==
    IF m = "get_builds" THEN sz # 0 ELSE q.start_index < sz

\* faulty variant of Regressed: the start-index check left out
RegressedIgnored(m, q, r) == FALSE

\* get_builds: `if results['start-index'] < qs['start-index']: break`
Regressed(m, q, r) ==
    m = "get_builds" /\ r.start_index < q.start_index

\* faulty variant of Increment: the cursor stays where it is
IncrementNone(m, q, r) == 0

\* faulty variant of Increment: the cursor moves by the requested max-result
IncrementRequested(m, q, r) == q.max_result

\* `qs['start-index'] += ...`
Increment(m, q, r) ==
    IF m = "get_builds" THEN r.size ELSE r.max_result

\* ------------------------------------------------------------------ actions
\* faulty variant of Call: a plain function, its body runs at the call
CallEager(i, m, mr, bs) ==
    /\ pc[i] = "idle"
    /\ pc' = [pc EXCEPT ![i] = "loop"]
    /\ meth' = [meth EXCEPT ![i] = m]
    /\ args' = [args EXCEPT ![i] = [max_result |-> mr, build_state |-> bs,
                                    opts |-> NoOpts]]
    /\ qs' = [qs EXCEPT ![Cell(i)] = [max_result |-> mr, start_index |-> 0,
                                      filters |-> EmptyDict]]
    /\ url' = [url EXCEPT ![i] = UrlOf(m, NoOpts)]
    /\ size' = [size EXCEPT ![i] = 1]
    /\ UNCHANGED <<srv, results, page, yielded, recv, reqlog, nexts,
                   err, prim, expand, expand_str, xvars>>

\* the caller calls the method: a generator object is created, no code runs
Call(i, m, mr, bs) ==
    /\ pc[i] = "idle"
    /\ pc' = [pc EXCEPT ![i] = "created"]
    /\ meth' = [meth EXCEPT ![i] = m]
    /\ args' = [args EXCEPT ![i] = [max_result |-> mr, build_state |-> bs,
                                    opts |-> NoOpts]]
    /\ UNCHANGED <<srv, qs, size, results, page, yielded, recv, reqlog, nexts,
                   err, prim, expand, expand_str, xvars, url>>

\* the same call with the other arguments given
CallOpts(i, m, mr, bs, opts) ==
    /\ pc[i] = "idle"
    /\ pc' = [pc EXCEPT ![i] = "created"]
    /\ meth' = [meth EXCEPT ![i] = m]
    /\ args' = [args EXCEPT ![i] = [max_result |-> mr, build_state |-> bs,
                                    opts |-> opts]]
    /\ UNCHANGED <<srv, qs, size, results, page, yielded, recv, reqlog, nexts,
                   err, prim, expand, expand_str, xvars, url>>

\* first next(): the body runs from its start to the `while`
Start(i) ==
    /\ pc[i] = "created"
    /\ nexts' = [nexts EXCEPT ![i] = @ + 1]
    /\ IF BuildStateRejected(meth[i], args[i].build_state)
       THEN /\ pc' = [pc EXCEPT ![i] = "invalid"]
            /\ err' = [err EXCEPT ![i] = "ValueError"]
            /\ UNCHANGED <<qs, size, url>>
       ELSE /\ pc' = [pc EXCEPT ![i] = "loop"]
            /\ \E f \in FiltersOf(meth[i], args[i]) :
                   qs' = [qs EXCEPT ![Cell(i)] =
                            [max_result |-> args[i].max_result,
                             start_index |-> 0, filters |-> f]]
            /\ url' = [url EXCEPT ![i] = UrlOf(meth[i], args[i].opts)]
            /\ size' = [size EXCEPT ![i] = 1]
            /\ UNCHANGED err
    /\ UNCHANGED <<srv, meth, args, results, page, yielded, recv, reqlog,
                   prim, expand, expand_str, xvars>>

\* a later next(): the body resumes after the yield
Resume(i) ==
    /\ pc[i] = "yielded"
    /\ nexts' = [nexts EXCEPT ![i] = @ + 1]
    /\ pc' = [pc EXCEPT ![i] = "page"]
    /\ UNCHANGED <<srv, meth, args, qs, size, results, page, yielded, recv,
                   reqlog, err, prim, expand, expand_str, xvars, url>>

\* faulty variant of Fail: the failed request is tried again
FailRetry(i, r) ==
    /\ pc' = pc
    /\ err' = [err EXCEPT ![i] = r.reason]
    /\ UNCHANGED <<size, results, page, recv>>

\* the exception of _get_response leaves the generator, which no handler
\* surrounds: the frame is finished and the consumer's next() raises
Fail(i, r) ==
    /\ pc' = [pc EXCEPT ![i] = "error"]
    /\ err' = [err EXCEPT ![i] = r.reason]
    /\ UNCHANGED <<size, results, page, recv>>

\* the `while` test holds: one request, its response decoded
Fetch(i, res) ==
    LET q == qs[Cell(i)]
        r == _get_response(res)
    IN  /\ pc[i] = "loop"
        /\ LoopCond(meth[i], q, size[i])
        /\ reqlog' = [reqlog EXCEPT ![i] =
                        Append(@, [url |-> url[i], max_result |-> q.max_result,
                                   start_index |-> q.start_index,
                                   filters |-> q.filters])]
        /\ IF r.raised
           THEN Fail(i, r)
           ELSE /\ results' = [results EXCEPT ![i] = r.value.json]
                /\ size' = [size EXCEPT ![i] = r.value.json.size]
                /\ IF Regressed(meth[i], q, r.value.json)
                   THEN /\ pc' = [pc EXCEPT ![i] = "done"]
                        /\ UNCHANGED <<page, recv>>
                   ELSE /\ pc' = [pc EXCEPT ![i] = "page"]
                        /\ page' = [page EXCEPT ![i] = r.value.json.result]
                        /\ recv' = [recv EXCEPT ![i] = @ \o r.value.json.result]
                /\ UNCHANGED err
        /\ UNCHANGED <<srv, meth, args, qs, yielded, nexts, prim, expand,
                       expand_str, xvars, url>>

\* the `while` test fails: the generator returns
Return(i) ==
    /\ pc[i] = "loop"
    /\ ~LoopCond(meth[i], qs[Cell(i)], size[i])
    /\ pc' = [pc EXCEPT ![i] = "done"]
    /\ UNCHANGED <<srv, meth, args, qs, size, results, page, yielded, recv,
                   reqlog, nexts, err, prim, expand, expand_str, xvars, url>>

\* faulty variant of Yield: the page is handed out from its end
YieldReversed(i) ==
    /\ pc[i] = "page"
    /\ page[i] # <<>>
    /\ yielded' = [yielded EXCEPT ![i] = Append(@, page[i][Len(page[i])])]
    /\ page' = [page EXCEPT ![i] = SubSeq(@, 1, Len(@) - 1)]
    /\ pc' = [pc EXCEPT ![i] = "yielded"]
    /\ UNCHANGED <<srv, meth, args, qs, size, results, recv, reqlog, nexts,
                   err, prim, expand, expand_str, xvars, url>>

\* `yield r`
Yield(i) ==
    /\ pc[i] = "page"
    /\ page[i] # <<>>
    /\ yielded' = [yielded EXCEPT ![i] = Append(@, Head(page[i]))]
    /\ page' = [page EXCEPT ![i] = Tail(@)]
    /\ pc' = [pc EXCEPT ![i] = "yielded"]
    /\ UNCHANGED <<srv, meth, args, qs, size, results, recv, reqlog, nexts,
                   err, prim, expand, expand_str, xvars, url>>

\* faulty variant of Advance: the server's max-result taken over into qs
AdvanceAdopt(i) ==
    /\ pc[i] = "page"
    /\ page[i] = <<>>
    /\ qs' = [qs EXCEPT ![Cell(i)].start_index =
                @ + Increment(meth[i], qs[Cell(i)], results[i]),
                        ![Cell(i)].max_result = results[i].max_result]
    /\ pc' = [pc EXCEPT ![i] = "loop"]
    /\ UNCHANGED <<srv, meth, args, size, results, page, yielded, recv,
                   reqlog, nexts, err, prim, expand, expand_str, xvars, url>>

\* the `for` is over: the cursor moves on
Advance(i) ==
    /\ pc[i] = "page"
    /\ page[i] = <<>>
    /\ qs' = [qs EXCEPT ![Cell(i)].start_index =
                @ + Increment(meth[i], qs[Cell(i)], results[i])]
    /\ pc' = [pc EXCEPT ![i] = "loop"]
    /\ UNCHANGED <<srv, meth, args, size, results, page, yielded, recv,
                   reqlog, nexts, err, prim, expand, expand_str, xvars, url>>

\* next() on a frame that has returned or raised: StopIteration, nothing runs
Exhausted(i) ==
    /\ pc[i] \in {"done", "error", "invalid"}
    /\ nexts[i] <= Len(yielded[i]) + 1
    /\ nexts' = [nexts EXCEPT ![i] = @ + 1]
    /\ UNCHANGED <<srv, pc, meth, args, qs, size, results, page, yielded,
                   recv, reqlog, err, prim, expand, expand_str, xvars, url>>

\* a call of a request primitive with the response the server gives
GetResponse(res) ==
    /\ prim' = [verb |-> "GET", res |-> res, out |-> _get_response(res)]
    /\ UNCHANGED <<pvars, expand, expand_str, xvars>>

PostResponse(res) ==
    /\ prim' = [verb |-> "POST", res |-> res, out |-> _post_response(res)]
    /\ UNCHANGED <<pvars, expand, expand_str, xvars>>

PutResponse(res) ==
    /\ prim' = [verb |-> "PUT", res |-> res, out |-> _put_response(res)]
    /\ UNCHANGED <<pvars, expand, expand_str, xvars>>

\* a call of _build_expand
BuildExpand ==
    /\ ~expand_str.done
    /\ \E s \in _build_expand(expand) :
          expand_str' = [done |-> TRUE, str |-> s]
    /\ UNCHANGED <<pvars, prim, expand, xvars>>


\* ------------------------------------------------------ get_builds_by_label
\* An href is the sequence of its path segments; os.path.basename gives the
\* last one.
basename(href) == href[Len(href)]

\* The status-icon elements soup.find_all returns, each with what the code
\* reads of it: whether a td encloses it (find_parent) and the hrefs of the
\* links of that td (find_all('a')).  Element k of page p:
Span(kind, p, k) ==
    LET prj   == <<"browse", "PRJ">>
        plan  == <<"browse", "PRJ-PLAN">>
        build == <<"browse", <<"PRJ-PLAN", p, k>> >>
        extra == <<"browse", "PRJ-PLAN", "log">>
    IN  CASE kind = "notd" -> [td |-> FALSE, links |-> <<>>]
          [] kind = "td2"  -> [td |-> TRUE, links |-> <<prj, plan>>]
          [] kind = "td3"  -> [td |-> TRUE, links |-> <<prj, plan, build>>]
          [] OTHER         -> [td |-> TRUE, links |-> <<prj, plan, build, extra>>]

SpanKinds == {"notd", "td2", "td3", "td4"}

\* the page the server holds at pageIndex p: the same layout on every page
\* and for every label, a next-page link on all pages but the last
LabelPage(p) ==
    [spans    |-> [k \in DOMAIN site.layout |-> Span(site.layout[k], p, k)],
     nextLink |-> p < site.pages]

LabelResponses(p) ==
    {[status_code |-> 200, reason |-> "OK", html |-> LabelPage(p)],
     [status_code |-> 500, reason |-> "Internal Server Error",
      html |-> [spans |-> <<>>, nextLink |-> FALSE]]}

LabelNames == {"a", "b"}

NoBfl ==
    [pc |-> "idle", labels |-> <<>>, li |-> 0, page_index |-> 0,
     qs |-> [labelName |-> None, pageIndex |-> 0],
     spans |-> <<>>, nextLink |-> FALSE,
     yielded |-> <<>>, reqlog |-> <<>>, nexts |-> 0,
     err |-> None]

\* `cell.find_all('a')[:3]`
FirstThree(links) == SubSeq(links, 1, Min(3, Len(links)))

\* the call: a generator object is created, no code runs
LabelCall(labels) ==
    /\ bfl.pc = "idle"
    /\ bfl' = [bfl EXCEPT !.pc = "created", !.labels = labels]
    /\ UNCHANGED <<pvars, prim, expand, expand_str, site, cvars>>

\* first next(): url and qs = {} are set, the `for label` loop is reached
LabelStart ==
    /\ bfl.pc = "created"
    /\ bfl' = [bfl EXCEPT !.pc = "for", !.nexts = @ + 1]
    /\ UNCHANGED <<pvars, prim, expand, expand_str, site, cvars>>

\* `for label in labels:` takes the next label, or the generator returns
LabelFor ==
    /\ bfl.pc = "for"
    /\ IF bfl.li < Len(bfl.labels)
       THEN bfl' = [bfl EXCEPT !.pc = "while",
                               !.li = @ + 1,
                               !.qs.labelName = bfl.labels[bfl.li + 1],
                               !.page_index = 1]
       ELSE bfl' = [bfl EXCEPT !.pc = "done"]
    /\ UNCHANGED <<pvars, prim, expand, expand_str, site, cvars>>

\* `while 1:` one request with the current pageIndex, its page parsed
LabelFetch(res) ==
    LET q == [bfl.qs EXCEPT !.pageIndex = bfl.page_index]
        r == _get_response(res)
    IN  /\ bfl.pc = "while"
        /\ IF r.raised
           THEN bfl' = [bfl EXCEPT !.pc = "error", !.err = r.reason,
                                   !.qs = q, !.reqlog = Append(@, q)]
           ELSE bfl' = [bfl EXCEPT !.pc = "spans",
                                   !.qs = q, !.reqlog = Append(@, q),
                                   !.spans = r.value.html.spans,
                                   !.nextLink = r.value.html.nextLink]
        /\ UNCHANGED <<pvars, prim, expand, expand_str, site, cvars>>

\* the record of a cell: `prj, plan, build = cell.find_all('a')[:3]`
Record(links) ==
    [projectKey |-> basename(links[1]),
     planKey    |-> basename(links[2]),
     buildKey   |-> basename(links[3])]

\* faulty variant of LabelSpan: records already yielded are left out
LabelSpanDedup ==
    LET span == Head(bfl.spans)
    IN  /\ bfl.pc = "spans"
        /\ bfl.spans # <<>>
        /\ IF ~span.td
           THEN bfl' = [bfl EXCEPT !.spans = Tail(@)]
           ELSE IF Len(FirstThree(span.links)) # 3
           THEN bfl' = [bfl EXCEPT !.pc = "error", !.err = "ValueError"]
           ELSE IF \E k \in DOMAIN bfl.yielded :
                      bfl.yielded[k] = Record(FirstThree(span.links))
           THEN bfl' = [bfl EXCEPT !.spans = Tail(@)]
           ELSE bfl' = [bfl EXCEPT !.pc = "yielded",
                                   !.spans = Tail(@),
                                   !.yielded =
                                       Append(@, Record(FirstThree(span.links)))]
        /\ UNCHANGED <<pvars, prim, expand, expand_str, site, cvars>>

\* one pass of `for span in soup.find_all(...)`: a span outside any td is
\* passed over (a td that encloses the span has it as a child, so len(cell) is
\* not 0); the three-name unpacking raises ValueError unless the slice holds
\* three links; otherwise the record is yielded
LabelSpan ==
    LET span == Head(bfl.spans)
    IN  /\ bfl.pc = "spans"
        /\ bfl.spans # <<>>
        /\ IF ~span.td
           THEN bfl' = [bfl EXCEPT !.spans = Tail(@)]
           ELSE IF Len(FirstThree(span.links)) # 3
           THEN bfl' = [bfl EXCEPT !.pc = "error", !.err = "ValueError"]
           ELSE bfl' = [bfl EXCEPT !.pc = "yielded",
                                   !.spans = Tail(@),
                                   !.yielded =
                                       Append(@, Record(FirstThree(span.links)))]
        /\ UNCHANGED <<pvars, prim, expand, expand_str, site, cvars>>

\* a later next(): the body resumes after the yield
LabelResume ==
    /\ bfl.pc = "yielded"
    /\ bfl' = [bfl EXCEPT !.pc = "spans", !.nexts = @ + 1]
    /\ UNCHANGED <<pvars, prim, expand, expand_str, site, cvars>>

\* the spans are done: `page_index += 1`, and `break` without a nextLink
LabelPageEnd ==
    /\ bfl.pc = "spans"
    /\ bfl.spans = <<>>
    /\ bfl' = [bfl EXCEPT !.page_index = @ + 1,
                          !.pc = IF bfl.nextLink THEN "while" ELSE "for"]
    /\ UNCHANGED <<pvars, prim, expand, expand_str, site, cvars>>

\* next() on the finished generator
LabelExhausted ==
    /\ bfl.pc \in {"done", "error"}
    /\ bfl.nexts <= Len(bfl.yielded) + 1
    /\ bfl' = [bfl EXCEPT !.nexts = @ + 1]
    /\ UNCHANGED <<pvars, prim, expand, expand_str, site, cvars>>

\* ----------------------------------------------------------- specifications
NoPrim == [verb |-> None, res |-> Failure(500), out |-> Raised(None)]

InitFrames ==
    /\ pc = [i \in Iters |-> "idle"]
    /\ meth = [i \in Iters |-> None]
    /\ args = [i \in Iters |-> [max_result |-> 0, build_state |-> None,
                                opts |-> NoOpts]]
    /\ url = [i \in Iters |-> PyNone]
    /\ qs = [c \in Iters |-> NoQs]
    /\ size = [i \in Iters |-> 0]
    /\ results = [i \in Iters |-> NoJson]
    /\ page = [i \in Iters |-> <<>>]
    /\ yielded = [i \in Iters |-> <<>>]
    /\ recv = [i \in Iters |-> <<>>]
    /\ reqlog = [i \in Iters |-> <<>>]
    /\ nexts = [i \in Iters |-> 0]
    /\ err = [i \in Iters |-> None]
    /\ prim = NoPrim

NoExpand ==
    /\ expand = <<>>
    /\ expand_str = [done |-> FALSE, str |-> <<>>]

NoSite == site = [pages |-> 1, layout |-> <<>>]

\* the parts of the state a specification does not exercise
Others ==
    /\ NoSite
    /\ bfl = NoBfl
    /\ client = DefaultClient
    /\ out = NoOut
    /\ queue = NoQueue

\* one iteration against an arbitrary server
Init ==
    /\ srv = [S |-> 0, M |-> 1]
    /\ InitFrames
    /\ NoExpand
    /\ Others

Next ==
    \/ \E m \in Methods, mr \in MaxResults : Call(1, m, mr, None)
    \/ Start(1)
    \/ Resume(1)
    \/ \E res \in AnyResponses(qs[Cell(1)].start_index) :
          /\ Len(reqlog[1]) < MaxReq
          /\ Fetch(1, res)
    \/ Return(1)
    \/ Yield(1)
    \/ Advance(1)
    \/ Exhausted(1)

Spec == Init /\ [][Next]_vars

\* one iteration of get_builds or of an index-bounded method against the
\* long-page server
InitItems ==
    /\ srv = [S |-> 0, M |-> 1]
    /\ InitFrames
    /\ NoExpand
    /\ Others

NextItems ==
    \/ \E m \in {"get_builds", "get_plans"}, mr \in MaxResults :
          Call(1, m, mr, None)
    \/ Start(1)
    \/ Resume(1)
    \/ \E res \in ItemResponses(qs[Cell(1)].start_index) :
          /\ Len(reqlog[1]) < MaxReq
          /\ Fetch(1, res)
    \/ Return(1)
    \/ Yield(1)
    \/ Advance(1)
    \/ Exhausted(1)

SpecItems == InitItems /\ [][NextItems]_vars

\* one iteration of get_builds against a server of each kind
InitBuilds ==
    /\ srv \in [S : 0..TwoMaxS, M : 1..TwoMaxM, kind : ServerKinds]
    /\ srv.kind = "any" => (srv.S = 0 /\ srv.M = 1)
    /\ InitFrames
    /\ NoExpand
    /\ Others

NextBuilds ==
    \/ \E mr \in MaxResults : Call(1, "get_builds", mr, None)
    \/ Start(1)
    \/ Resume(1)
    \/ \E res \in BuildsResponses(qs[Cell(1)].start_index) :
          /\ srv.kind = "any" => Len(reqlog[1]) < MaxReq
          /\ srv.kind = "constant" => Len(reqlog[1]) < BuildsMaxReq
          /\ Fetch(1, res)
    \/ Return(1)
    \/ Yield(1)
    \/ Advance(1)
    \/ Exhausted(1)

SpecBuilds == InitBuilds /\ [][NextBuilds]_vars

\* one iteration of an index-bounded method against the bounded server,
\* consumed to its end: the consumer keeps calling next()
InitBounded ==
    /\ srv \in [S : {0}, M : {1}, B : 0..MaxB, least : {0, 1}]
    /\ InitFrames
    /\ NoExpand
    /\ Others

NextBounded ==
    \/ \E m \in {"get_plans", "get_results"} :
          Call(1, m, DefaultMaxResult, None)
    \/ Start(1)
    \/ Resume(1)
    \/ \E res \in BoundedResponses(qs[Cell(1)].start_index) :
          /\ Len(reqlog[1]) < Max(1, srv.B) + MaxStall
          /\ Fetch(1, res)
    \/ Return(1)
    \/ Yield(1)
    \/ Advance(1)
    \/ Exhausted(1)

SpecBounded == InitBounded /\ [][NextBounded]_vars /\ WF_vars(NextBounded)

\* one iteration of any paginated method, called with filters and path
\* arguments, against the paging server
InitFilters ==
    /\ srv \in [S : 0..TwoMaxS, M : 1..TwoMaxM]
    /\ InitFrames
    /\ NoExpand
    /\ Others

NextFilters ==
    \/ \E m \in Methods, mr \in MaxResults, bs \in {None, "Successful"},
          opts \in OptsSet :
          /\ (m # "get_branch_results" => bs = None)
          /\ CallOpts(1, m, mr, bs, opts)
    \/ Start(1)
    \/ Resume(1)
    \/ \E res \in PagedResponses(meth[1], srv.S, srv.M,
                                  qs[Cell(1)].start_index) : Fetch(1, res)
    \/ Return(1)
    \/ Yield(1)
    \/ Advance(1)
    \/ Exhausted(1)

SpecFilters == InitFilters /\ [][NextFilters]_vars

\* one iteration against the paging server, with any build_state given to
\* get_branch_results
InitPaged ==
    /\ srv \in [S : 0..MaxS, M : 1..MaxM]
    /\ InitFrames
    /\ NoExpand
    /\ Others

NextPaged ==
    \/ \E m \in Methods, mr \in MaxResults, bs \in BuildStates :
          /\ (m # "get_branch_results" => bs = None)
          /\ Call(1, m, mr, bs)
    \/ Start(1)
    \/ Resume(1)
    \/ \E res \in PagedResponses(meth[1], srv.S, srv.M,
                                  qs[Cell(1)].start_index) : Fetch(1, res)
    \/ Return(1)
    \/ Yield(1)
    \/ Advance(1)
    \/ Exhausted(1)

SpecPaged == InitPaged /\ [][NextPaged]_vars

\* two iterations on one client against the paging server, their next()
\* calls interleaved in any order
InitTwo ==
    /\ srv \in [S : 0..TwoMaxS, M : 1..TwoMaxM]
    /\ InitFrames
    /\ NoExpand
    /\ Others

NextTwo ==
    \E i \in Iters :
        \/ \E m \in Methods : Call(i, m, DefaultMaxResult, None)
        \/ Start(i)
        \/ Resume(i)
        \/ \E res \in PagedResponses(meth[i], srv.S, srv.M,
                                      qs[Cell(i)].start_index) : Fetch(i, res)
        \/ Return(i)
        \/ Yield(i)
        \/ Advance(i)
        \/ Exhausted(i)

SpecTwo == InitTwo /\ [][NextTwo]_vars

\* the request primitives, called with any response
Responses == [status_code : Statuses, reason : Reasons, json : {NoJson}]

InitHttp ==
    /\ srv = [S |-> 0, M |-> 1]
    /\ InitFrames
    /\ NoExpand
    /\ Others

NextHttp ==
    \E res \in Responses :
        \/ GetResponse(res)
        \/ PostResponse(res)
        \/ PutResponse(res)

SpecHttp == InitHttp /\ [][NextHttp]_vars

\* _build_expand, called with any list of at most MaxExpand keys
SeqsUpTo(S, n) == UNION {[1..k -> S] : k \in 0..n}

InitExpand ==
    /\ srv = [S |-> 0, M |-> 1]
    /\ InitFrames
    /\ expand \in SeqsUpTo(ExpandKeys, MaxExpand)
    /\ expand_str = [done |-> FALSE, str |-> <<>>]
    /\ Others

NextExpand == BuildExpand

SpecExpand == InitExpand /\ [][NextExpand]_vars

\* get_builds_by_label against a server that holds, for every label, the
\* same 1..MaxLabelPages result pages of one layout
InitLabel ==
    /\ srv = [S |-> 0, M |-> 1]
    /\ InitFrames
    /\ NoExpand
    /\ site \in [pages : 1..MaxLabelPages,
                 layout : SeqsUpTo(SpanKinds, MaxSpans)]
    /\ bfl = NoBfl
    /\ client = DefaultClient
    /\ out = NoOut
    /\ queue = NoQueue

NextLabel ==
    \/ \E labels \in SeqsUpTo(LabelNames, MaxLabels) : LabelCall(labels)
    \/ LabelStart
    \/ LabelFor
    \/ \E res \in LabelResponses(bfl.page_index) : LabelFetch(res)
    \/ LabelSpan
    \/ LabelResume
    \/ LabelPageEnd
    \/ LabelExhausted

SpecLabel == InitLabel /\ [][NextLabel]_vars

\* _get_url on a client constructed with any of the arguments
InitUrl ==
    /\ srv = [S |-> 0, M |-> 1]
    /\ InitFrames
    /\ NoExpand
    /\ NoSite
    /\ bfl = NoBfl
    /\ \E host \in Hosts, port \in Ports, prefix \in Prefixes :
           client = __init__(host, port, prefix)
    /\ out = NoOut
    /\ queue = NoQueue

NextUrl == \E endpoint \in Endpoints : GetUrl(endpoint)

SpecUrl == InitUrl /\ [][NextUrl]_vars

\* up to MaxCalls calls of queue_build and continue_build on one client
InitQueue ==
    /\ srv = [S |-> 0, M |-> 1]
    /\ InitFrames
    /\ NoExpand
    /\ Others

NextQueue ==
    \E plan_key \in PlanKeys, dflt \in BOOLEAN, bv \in Dicts,
       res \in QueueResponses :
        \/ QueueBuild(plan_key, dflt, bv, res)
        \/ \E build_number \in BuildNumbers, stage \in Stages,
              executeAllStages \in BOOLEAN :
               ContinueBuild(plan_key, build_number, stage,
                             executeAllStages, dflt, bv, res)

SpecQueue == InitQueue /\ [][NextQueue]_vars

\* ------------------------------------------------------------------- claims
Last(s) == s[Len(s)]

Ceil(a, b) == (a + b - 1) \div b

\* the response to frame i's last request was decoded and its echoed
\* start-index is below the requested one
LastRegressed(i) ==
    /\ reqlog[i] # <<>>
    /\ pc[i] # "error"
    /\ results[i].start_index < Last(reqlog[i]).start_index

\* frame i issues a request in this step
Requests(i) == Len(reqlog'[i]) = Len(reqlog[i]) + 1

\* C1: an index-bounded method consumed to its end against the paging server
\* (S items, max-result M >= 1) has yielded exactly the items 1..S in order
\* and has issued max(1, ceil(S / M)) requests, at start-index 0, M, 2M, ...
C1_AllItemsOnce ==
    \A i \in Iters :
        (meth[i] \in IndexBounded /\ pc[i] = "done") =>
            /\ yielded[i] = Items(0, srv.S)
            /\ Len(reqlog[i]) = Max(1, Ceil(srv.S, srv.M))
            /\ \A k \in DOMAIN reqlog[i] :
                  reqlog[i][k].start_index = (k - 1) * srv.M

\* 5 items in pages of 2, 2, 1: three requests
C1_Witness ==
    /\ meth[1] = "get_results" /\ pc[1] = "done"
    /\ srv.S = 5 /\ srv.M = 2
    /\ Len(reqlog[1]) = 3 /\ Len(yielded[1]) = 5
    /\ args[1].max_result = DefaultMaxResult

\* C2: in get_builds a response that echoes a start-index below the requested
\* one ends the iteration in that step, with nothing yielded from it, and a
\* finished iteration issues no request and yields no item any more.
C2_BuildsAbortOnRegress ==
    [][\A i \in Iters :
          /\ (/\ meth[i] = "get_builds"
              /\ Requests(i)
              /\ pc'[i] # "error"
              /\ results'[i].start_index < Last(reqlog'[i]).start_index)
             => (pc'[i] = "done" /\ yielded'[i] = yielded[i]
                 /\ recv'[i] = recv[i])
          /\ (meth[i] = "get_builds" /\ pc[i] = "done")
             => (pc'[i] = "done" /\ reqlog'[i] = reqlog[i]
                 /\ yielded'[i] = yielded[i])]_vars

\* get_builds ended by a regressed second response, one item yielded before,
\* and the consumer has asked again
C2_Witness ==
    /\ meth[1] = "get_builds" /\ pc[1] = "done"
    /\ LastRegressed(1)
    /\ Len(reqlog[1]) = 2 /\ Len(yielded[1]) = 1
    /\ results[1].result # <<>>
    /\ nexts[1] = 3

\* C3: in an index-bounded method, once a response has echoed a start-index
\* below the requested one, no item is yielded and no request is issued any
\* more.
C3_IndexBoundedAbortOnRegress ==
    [][\A i \in Iters :
          (meth[i] \in IndexBounded /\ LastRegressed(i)) =>
              (yielded'[i] = yielded[i] /\ reqlog'[i] = reqlog[i])]_vars

\* C4: in every paginated method, get_builds included, a request after the first is
\* at the previous start-index plus the previous envelope's max-result.
C4_AdvanceByMaxResult ==
    [][\A i \in Iters :
          (Requests(i) /\ reqlog[i] # <<>>) =>
              Last(reqlog'[i]).start_index =
                  Last(reqlog[i]).start_index + results[i].max_result]_vars

\* C5: a paginated method is lazy.  No request is issued before the consumer
\* has asked for an item; a request is issued only while the consumer asks
\* for one more item after having received every item of the pages fetched
\* so far; and a consumer holding j >= 1 items has caused no request beyond
\* the one whose page holds item j.
C5_Lazy ==
    /\ [](\A i \in Iters :
            /\ (nexts[i] = 0 => reqlog[i] = <<>>)
            /\ Len(yielded[i]) <= nexts[i]
            /\ (pc[i] = "yielded" =>
                  /\ nexts[i] = Len(yielded[i])
                  /\ Len(yielded[i]) <= Len(recv[i])
                  /\ Len(yielded[i]) > Len(recv[i]) - Len(results[i].result)))
    /\ [][\A i \in Iters :
            Requests(i) =>
                /\ yielded[i] = recv[i]
                /\ nexts[i] = Len(yielded[i]) + 1]_vars

\* the consumer stopped after the fourth of five items, the second of the
\* second page of two: two requests have been issued, the third has not
C5_Witness ==
    /\ pc[1] = "yielded" /\ meth[1] = "get_branches"
    /\ srv.S = 5 /\ srv.M = 2
    /\ Len(yielded[1]) = 4 /\ nexts[1] = 4
    /\ page[1] = <<>>
    /\ Len(reqlog[1]) = 2

\* C6: get_branch_results with a non-empty build_state outside {Successful,
\* Failed, Unknown} issues no request and, once the consumer asks for the
\* first item, fails with the validation error; with a build_state inside the
\* set it never fails with the validation error.
C6_BuildStateValidated ==
    \A i \in Iters :
        meth[i] = "get_branch_results" =>
            LET bs == args[i].build_state
                inside == bs \in {"Successful", "Failed", "Unknown"}
            IN  /\ (bs \notin {None, ""} /\ ~inside) =>
                      /\ reqlog[i] = <<>>
                      /\ pc[i] \in {"created", "invalid"}
                      /\ (nexts[i] >= 1 => (pc[i] = "invalid"
                                            /\ err[i] = "ValueError"))
                /\ inside => pc[i] # "invalid"

\* "Bogus" was refused at the first next(), whatever max_result is
C6_Witness ==
    /\ meth[1] = "get_branch_results" /\ args[1].build_state = "Bogus"
    /\ args[1].max_result = 1
    /\ pc[1] = "invalid" /\ nexts[1] = 1 /\ reqlog[1] = <<>>

\* C7: a request primitive returns the response exactly when its status code
\* is 200, and otherwise raises an error carrying the response's reason
\* phrase and returns nothing.
C7_Only200Returns ==
    prim.verb \in {"GET", "POST", "PUT"} =>
        /\ (~prim.out.raised <=> prim.res.status_code = 200)
        /\ (~prim.out.raised => prim.out.value = prim.res)
        /\ (prim.out.raised =>
              /\ prim.out.reason = prim.res.reason
              /\ prim.out.value = None)

\* PUT answered 204 No Content: raised, with the reason phrase
C7_Witness ==
    /\ prim.verb = "PUT" /\ prim.res.status_code = 204
    /\ prim.res.reason = "No Content"
    /\ prim.out.raised /\ prim.out.reason = "No Content"

\* C8 (as claimed): no start-index is requested twice in one iteration.
C8_StartIndexOnce ==
    \A i \in Iters :
        \A j, k \in DOMAIN reqlog[i] :
            j < k => reqlog[i][j].start_index # reqlog[i][k].start_index

\* C8 (amended): a failed request ends the iteration with its error in the
\* consumer's hands: the failed request is not issued again, no later request
\* is made and no further item is yielded.  A request after the first is at a
\* larger start-index than the one before, or, in an index-bounded method
\* whose previous envelope reported max-result 0, at the same one.
C8_FailureIsLast ==
    [][\A i \in Iters :
          /\ pc[i] = "error" =>
                /\ pc'[i] = "error" /\ err'[i] = err[i]
                /\ reqlog'[i] = reqlog[i]
                /\ yielded'[i] = yielded[i]
          /\ (Requests(i) /\ pc'[i] = "error") =>
                /\ err'[i] \in {ReasonOf(s) : s \in PageFailures}
                /\ yielded'[i] = yielded[i]
          /\ (Requests(i) /\ reqlog[i] # <<>>) =>
                \/ Last(reqlog'[i]).start_index > Last(reqlog[i]).start_index
                \/ /\ Last(reqlog'[i]).start_index = Last(reqlog[i]).start_index
                   /\ meth[i] \in IndexBounded
                   /\ results[i].max_result = 0]_vars

\* the second request failed after one item; the consumer asked again and
\* nothing was requested
C8_Witness ==
    /\ pc[1] = "error" /\ err[1] = "Internal Server Error"
    /\ Len(reqlog[1]) = 2 /\ Len(yielded[1]) = 1
    /\ nexts[1] = 3

\* C9: the comma-separated entries of _build_expand's result are exactly the
\* keys of the input that are in the allow-list, each prefixed with
\* "results.result." and each once; with no valid key the result is empty.
RECURSIVE Split(_, _)
Split(str, sep) ==
    IF \E k \in DOMAIN str : str[k] = sep
    THEN LET k == CHOOSE n \in DOMAIN str :
                     str[n] = sep /\ \A l \in 1..(n - 1) : str[l] # sep
         IN  <<SubSeq(str, 1, k - 1)>> \o Split(SubSeq(str, k + 1, Len(str)), sep)
    ELSE <<str>>

C9_AllowList ==
    { <<"artifacts">>, <<"comments">>, <<"labels">>, <<"jiraIssues">>,
      <<"stages">>,
      <<"stages", ".", "stage">>,
      <<"stages", ".", "stage", ".", "results">>,
      <<"stages", ".", "stage", ".", "results", ".", "result">> }

C9_Expected ==
    { <<"results", ".", "result", ".">> \o k : k \in Range(expand) \cap C9_AllowList }

C9_ExpandAllowList ==
    expand_str.done =>
        IF C9_Expected = {}
        THEN expand_str.str = <<>>
        ELSE /\ Range(Split(expand_str.str, ",")) = C9_Expected
             /\ Len(Split(expand_str.str, ",")) = Cardinality(C9_Expected)

\* ['labels', 'bogus'] gives 'results.result.labels'
C9_Witness ==
    /\ expand = << <<"labels">>, <<"bogus">> >>
    /\ expand_str.done
    /\ expand_str.str = <<"results", ".", "result", ".", "labels">>

\* C10: what an iteration requests and yields does not depend on the other
\* iteration of the client.  The run of method m alone against the paging
\* server, from start-index 0:
RECURSIVE SoloStarts(_, _, _, _, _), SoloItems(_, _, _, _, _)
SoloStarts(m, S, M, start, sz) ==
    IF ~LoopCond(m, [start_index |-> start], sz) THEN <<>>
    ELSE LET j == PagedJson(m, S, M, start)
         IN  <<start>> \o
             SoloStarts(m, S, M, start + Increment(m, NoQs, j), j.size)

SoloItems(m, S, M, start, sz) ==
    IF ~LoopCond(m, [start_index |-> start], sz) THEN <<>>
    ELSE LET j == PagedJson(m, S, M, start)
         IN  j.result \o
             SoloItems(m, S, M, start + Increment(m, NoQs, j), j.size)

IsPrefix(a, b) ==
    Len(a) <= Len(b) /\ \A k \in DOMAIN a : a[k] = b[k]

\* Each iteration's requests and items are those of its run alone, up to
\* where it has got, and all of them once it has returned; every request
\* carries the max_result of its own call.
C10_IndependentCursors ==
    \A i \in Iters :
        pc[i] # "idle" =>
            LET starts == [k \in DOMAIN reqlog[i] |-> reqlog[i][k].start_index]
                solo   == SoloStarts(meth[i], srv.S, srv.M, 0, 1)
                items  == SoloItems(meth[i], srv.S, srv.M, 0, 1)
            IN  /\ IsPrefix(starts, solo)
                /\ IsPrefix(yielded[i], items)
                /\ (reqlog[i] # <<>> => reqlog[i][1].start_index = 0)
                /\ \A k \in DOMAIN reqlog[i] :
                      reqlog[i][k].max_result = args[i].max_result
                /\ (pc[i] = "done" => (starts = solo /\ yielded[i] = items))

\* both iterations under way at once, the first two pages ahead
C10_Witness ==
    /\ pc[1] = "yielded" /\ pc[2] = "yielded"
    /\ meth[1] = "get_plans" /\ meth[2] = "get_branches"
    /\ Len(reqlog[1]) = 3 /\ Len(reqlog[2]) = 1
    /\ Len(yielded[1]) = 3 /\ Len(yielded[2]) = 1

\* C11: get_builds_by_label takes the labels in the given order and requests,
\* for each, pageIndex 1, 2, 3, ... up to the first page without a next-page
\* link, then starts the next label at pageIndex 1; when a request is issued
\* every record of the pages requested before has been yielded, and a record
\* found under several labels is yielded under each of them.
RECURSIVE Concat(_)
Concat(seqs) == IF seqs = <<>> THEN <<>> ELSE Head(seqs) \o Concat(Tail(seqs))

\* the requests of a whole run: each label in turn, its pages in turn
C11_ExpectedRequests ==
    Concat([j \in DOMAIN bfl.labels |->
               [p \in 1..site.pages |->
                   [labelName |-> bfl.labels[j], pageIndex |-> p]]])

\* the records page p holds, in page order
RECURSIVE C11_RecordsOf(_)
C11_RecordsOf(spans) ==
    IF spans = <<>> THEN <<>>
    ELSE (IF Head(spans).td /\ Len(Head(spans).links) >= 3
          THEN <<Record(SubSeq(Head(spans).links, 1, 3))>> ELSE <<>>)
         \o C11_RecordsOf(Tail(spans))

\* the records of all pages requested so far, in request order
C11_RecordsRequested ==
    Concat([k \in DOMAIN bfl.reqlog |->
               C11_RecordsOf(LabelPage(bfl.reqlog[k].pageIndex).spans)])

C11_LabelsAndPagesInOrder ==
    /\ IsPrefix(bfl.reqlog, C11_ExpectedRequests)
    /\ IsPrefix(bfl.yielded, C11_RecordsRequested)
    /\ (bfl.pc \in {"for", "while", "done"} =>
           bfl.yielded = C11_RecordsRequested)
    /\ (bfl.pc = "done" => bfl.reqlog = C11_ExpectedRequests)

\* labels a, b over two pages of two records each: four requests, and the
\* four records of the site yielded twice
C11_Witness ==
    /\ bfl.pc = "done"
    /\ bfl.labels = <<"a", "b">>
    /\ site.pages = 2 /\ site.layout = <<"td3", "td4">>
    /\ [k \in 1..4 |-> bfl.reqlog[k].pageIndex] = <<1, 2, 1, 2>>
    /\ Len(bfl.reqlog) = 4
    /\ Len(bfl.yielded) = 8
    /\ bfl.yielded[1] = bfl.yielded[5]

\* C15: in get_builds_by_label a status-icon element whose enclosing cell has
\* fewer than three links yields no record and does not end the iteration;
\* a record is yielded only for a cell with at least three links, from its
\* first three.
C15_ShortCellSkipped ==
    [][(bfl.pc = "spans" /\ bfl.spans # <<>>) =>
          LET span == Head(bfl.spans)
          IN  /\ (span.td /\ Len(span.links) < 3) =>
                    (bfl'.pc # "error" /\ bfl'.yielded = bfl.yielded)
              /\ bfl'.yielded # bfl.yielded =>
                    /\ span.td /\ Len(span.links) >= 3
                    /\ bfl'.yielded =
                         Append(bfl.yielded, Record(SubSeq(span.links, 1, 3)))]_vars

\* the argument x, None replaced by the default d
C12_GivenOr(x, d) == IF x = PyNone THEN d ELSE x

\* the example: host http://x, port 443, prefix /p, endpoint /e
C12_Example ==
    /\ client.given = [host |-> PyStr(<<"http://x">>), port |-> PyInt(443),
                       prefix |-> PyStr(<<"/", "p">>)]
    /\ out.endpoint = PyStr(<<"/", "e">>)

\* C12 as stated: _get_url returns host, ':', port, prefix, endpoint
\* concatenated, from the values given at construction, None replaced by
\* http://localhost, 8085 and ''; host http://x, port 443, prefix /p,
\* endpoint /e gives http://x:443/pe.
C12_UrlOfGiven ==
    out.op = "_get_url" =>
        /\ out.url.v = Str(C12_GivenOr(client.given.host, DEFAULT_HOST))
                       \o <<":">>
                       \o Str(C12_GivenOr(client.given.port, DEFAULT_PORT))
                       \o Str(C12_GivenOr(client.given.prefix, PyStr(<<>>)))
                       \o Str(out.endpoint)
        /\ C12_Example =>
               out.url.v = <<"http://x", ":", "4", "4", "3", "/", "p", "e">>

\* the argument x, None, 0 and '' replaced by the default d
C12_Missing(x) == x = PyNone \/ x = PyInt(0) \/ x = PyStr(<<>>)

C12_Used(x, d) == IF C12_Missing(x) THEN d ELSE x

\* C12, amended: _get_url returns host, ':', port, prefix, endpoint
\* concatenated with nothing inserted or removed, where host, port and
\* prefix are the constructor's arguments, an argument that is None, 0 or
\* the empty string replaced by http://localhost, 8085 and ''; host
\* http://x, port 443, prefix /p, endpoint /e gives http://x:443/p/e.
C12_UrlIsConcatenation ==
    out.op = "_get_url" =>
        /\ out.url.t = "str"
        /\ out.url.v = Str(C12_Used(client.given.host, DEFAULT_HOST))
                       \o <<":">>
                       \o Str(C12_Used(client.given.port, DEFAULT_PORT))
                       \o Str(C12_Used(client.given.prefix, PyStr(<<>>)))
                       \o Str(out.endpoint)
        /\ C12_Example =>
               out.url.v = <<"http://x", ":", "4", "4", "3",
                             "/", "p", "/", "e">>
        /\ (client.given = [host |-> PyNone, port |-> PyNone,
                            prefix |-> PyNone]) =>
               out.url.v = <<"http://localhost", ":", "8", "0", "8", "5">>
                           \o out.endpoint.v

C12_Witness ==
    /\ out.op = "_get_url"
    /\ C12_Example
    /\ out.url.v = <<"http://x", ":", "4", "4", "3", "/", "p", "/", "e">>

\* the bamboo.variable keys of a query dict
C13_VariableKeys(q) == {key \in DOMAIN q : key[1] = "bamboo.variable."}

\* the query dict expected of the last call
C13_ExpectedQs ==
    LET c == queue.call
        flag  == IF c.op = "continue_build" /\ c.executeAllStages
                 THEN {<<"executeAllStages">>} ELSE {}
        stage == IF c.op = "continue_build" /\ c.stage \notin {PyNone, PyStr(<<>>)}
                 THEN {<<"stage">>} ELSE {}
        names == {<<"bamboo.variable.", k>> : k \in DOMAIN queue.before}
    IN  [key \in flag \cup stage \cup names |->
            IF key = <<"executeAllStages">> THEN PyStr(<<"true">>)
            ELSE IF key = <<"stage">> THEN c.stage
            ELSE queue.before[key[2]]]

\* C13: every call of queue_build / continue_build issues exactly one request
\* (POST resp. PUT) whose query parameters are bamboo.variable.<k> = v for
\* every build variable, plus, for continue_build, executeAllStages = 'true'
\* exactly when the flag is set and stage exactly when a (non-empty) stage is
\* given; the mapping passed and the default mappings are left as they were,
\* so a call without build_vars sends no bamboo.variable key.
C13_QueueParams ==
    /\ queue.sent = queue.calls
    /\ queue.defaults = [queue_build |-> EmptyDict, continue_build |-> EmptyDict]
    /\ queue.calls > 0 =>
          /\ queue.last.verb = IF queue.call.op = "queue_build" THEN "POST"
                               ELSE "PUT"
          /\ queue.last.qs = C13_ExpectedQs
          /\ queue.passed = queue.before
          /\ queue.call.dflt => C13_VariableKeys(queue.last.qs) = {}

C13_Witness ==
    /\ queue.calls = 2
    /\ queue.call.op = "continue_build"
    /\ queue.call.dflt
    /\ queue.call.executeAllStages
    /\ queue.last.qs = (<<"executeAllStages">> :> PyStr(<<"true">>))
                       @@ (<<"stage">> :> PyStr(<<"Deploy">>))
    /\ queue.last.url.v = <<"http://localhost", ":", "8", "0", "8", "5", "/",
                            "rest/api/latest/queue", "/", "PRJ-PLAN", "-",
                            "1", "2">>

\* C14: whatever the server sends, at every point of a paginated iteration
\* the items yielded so far are a prefix of the concatenation, in fetch
\* order, of the item lists received so far (a get_builds response whose
\* start-index regressed left out), and the whole of it each time the next
\* request is about to be made: nothing is filtered, reordered,
\* de-duplicated or modified.
C14_YieldedIsPrefixOfReceived ==
    \A i \in Iters :
        /\ IsPrefix(yielded[i], recv[i])
        /\ pc[i] = "page" => yielded[i] \o page[i] = recv[i]
        /\ pc[i] \in {"loop", "done"} => yielded[i] = recv[i]

C14_Witness ==
    /\ pc[1] = "done"
    /\ Len(reqlog[1]) = 2
    /\ results[1].size = 0
    /\ results[1].max_result = 0
    /\ yielded[1] = <<1, 2, 1, 2>>

\* C16: get_builds returns only after a response that reports size 0 or
\* whose start-index regressed (or ends on a failed request), and after any
\* other response, once the page is consumed, its next step is a request.
\* Against the paging server (size = items of the page, start-index echoed)
\* it has yielded the items 1..S in order when it returns, its last request
\* is one past the end and got size 0.  Against the server that reports a
\* constant non-zero size it never returns: every page is followed by a
\* request further on.
C16_BuildsStopOnlyOnZeroSize ==
    /\ [](pc[1] = "done" =>
            /\ reqlog[1] # <<>>
            /\ results[1].size = 0 \/ LastRegressed(1))
    /\ [](pc[1] = "error" => err[1] \in Reasons)
    /\ [][(pc[1] = "loop" /\ reqlog[1] # <<>> /\ results[1].size # 0)
            => Requests(1)]_vars
    /\ []((srv.kind = "paged" /\ pc[1] = "done") =>
            /\ yielded[1] = Items(0, srv.S)
            /\ Len(reqlog[1]) = Ceil(srv.S, srv.M) + 1
            /\ \A k \in DOMAIN reqlog[1] :
                  reqlog[1][k].start_index = Min(srv.S, (k - 1) * srv.M)
            /\ results[1].result = <<>>)
    /\ [](srv.kind = "constant" =>
            /\ pc[1] \notin {"done", "error"}
            /\ \A k \in DOMAIN reqlog[1] :
                  reqlog[1][k].start_index = (k - 1) * srv.M)

\* 3 items in pages of 2 and 1, then the request past the end
C16_Witness ==
    /\ srv = [S |-> 3, M |-> 2, kind |-> "paged"]
    /\ pc[1] = "done"
    /\ yielded[1] = <<1, 2, 3>>
    /\ Len(reqlog[1]) = 3
    /\ Last(reqlog[1]).start_index = 3
    /\ results[1].size = 0

\* C17: an index-bounded iteration consumed to its end against a server all
\* of whose responses report max-result >= 1 and a size of at most B issues
\* at most max(1, B) requests and ends; and when a response reports
\* max-result 0 with a size above the start-index requested, the next step
\* of the loop is a request at the same start-index.
C17_BoundedRequests ==
    /\ [](srv.least >= 1 => Len(reqlog[1]) <= Max(1, srv.B))
    /\ (srv.least >= 1 => <>(pc[1] \in {"done", "error"}))
    /\ [][(/\ pc[1] = "loop" /\ reqlog[1] # <<>>
           /\ results[1].max_result = 0
           /\ results[1].size > Last(reqlog[1]).start_index)
          => (/\ Requests(1)
              /\ Last(reqlog'[1]).start_index = Last(reqlog[1]).start_index)]_vars

\* sizes of 3 and max-result 1: the third request is the last
C17_Witness ==
    /\ srv.B = 3 /\ srv.least = 1
    /\ pc[1] = "done"
    /\ Len(reqlog[1]) = 3
    /\ yielded[1] = <<1, 2, 3>>

\* C18: within one paginated iteration every request goes to the url of the
\* first request and carries its query parameters except for start-index:
\* max-result is the caller's value whatever max-result the server reports,
\* and the filter keys and values are the ones the call put there.
C18_RequestsDifferOnlyInStartIndex ==
    \A i \in Iters :
        /\ \A k \in DOMAIN reqlog[i] :
              /\ reqlog[i][k].url = reqlog[i][1].url
              /\ reqlog[i][k].filters = reqlog[i][1].filters
              /\ reqlog[i][k].max_result = args[i].max_result
        /\ reqlog[i] # <<>> =>
              /\ reqlog[i][1].url = UrlOf(meth[i], args[i].opts)
              /\ reqlog[i][1].filters \in FiltersOf(meth[i], args[i])
              /\ qs[Cell(i)].filters = reqlog[i][1].filters
              /\ qs[Cell(i)].max_result = args[i].max_result

\* get_branch_results with every filter, max_result 25 against pages of 2
C18_Witness ==
    /\ meth[1] = "get_branch_results" /\ pc[1] = "done"
    /\ args[1].max_result = DefaultMaxResult /\ srv.M = 2
    /\ Len(reqlog[1]) = 2
    /\ reqlog[1][2].start_index = 2
    /\ reqlog[1][2].max_result = DefaultMaxResult
    /\ DOMAIN reqlog[1][2].filters =
          {"expand", "favorite", "label", "issueKey", "includeAllStates",
           "continuable", "build_state"}
    /\ reqlog[1][2].filters["label"] = PyStr(<<"nightly", ",", "smoke">>)
    /\ reqlog[1][2].url.v =
          <<"http://localhost", ":", "8", "0", "8", "5", "/",
            "rest/api/latest/result", "/", "PRJ-PLAN", "/", "branch", "/",
            "develop">>

=============================================================================
